---- MODULE Spec2Model ----
(***************************************************************************)
(* A model of the run-time diagnostics controller declared in              *)
(* lib/ts/Diags.h: the two enable flags, the per-level output table, the   *)
(* two tag tables behind tag_table_lock, the gates on(mode) / on(tag,mode),*)
(* log_va, print_va, activate_taglist and deactivate_all, as called by     *)
(* several threads of one process.                                         *)
(*                                                                         *)
(* Diags.h holds the inline members only.  The members it merely declares  *)
(* (tag_activated, print_va, activate_taglist, deactivate_all, the         *)
(* constructor) are modelled from the design description; each such        *)
(* definition says so in its comment.                                      *)
(*                                                                         *)
(* Further parts: the Diag / Debug and Status .. Emergency macros, log and *)
(* error, a second Diags object sharing the static enable flags, and the   *)
(* build without TS_USE_DIAGS.                                             *)
(***************************************************************************)
EXTENDS Naturals, Sequences, FiniteSets

\* ------------------------------------------------------------- bounds
NumThreads == 2

Threads == 1 .. NumThreads
NoThread == 0

\* ------------------------------------------------------ program constants
DiagsTagType_Debug == 0
DiagsTagType_Action == 1
TagTypes == {DiagsTagType_Debug, DiagsTagType_Action}

DL_Diag == 0
DL_Debug == 1
DL_Status == 2
DL_Note == 3
DL_Warning == 4
DL_Error == 5
DL_Fatal == 6
DL_Alert == 7
DL_Emergency == 8
DL_Undefined == 9
DiagsLevel_Count == DL_Undefined
Levels == 0 .. (DiagsLevel_Count - 1)

DiagsLevel_IsTerminal_FromAlert(l) == (l > DL_Fatal) /\ (l < DL_Undefined)

DiagsLevel_IsTerminal_FromError(l) == (l >= DL_Error) /\ (l < DL_Undefined)

\* #define DiagsLevel_IsTerminal(_l) (((_l) >= DL_Fatal) && ((_l) < DL_Undefined))
DiagsLevel_IsTerminal(l) == (l >= DL_Fatal) /\ (l < DL_Undefined)

\* struct DiagsModeOutput: four independent flags, one per sink.
Sinks == {"to_stdout", "to_stderr", "to_syslog", "to_diagslog"}
DiagsModeOutput == [to_stdout : BOOLEAN, to_stderr : BOOLEAN,
                    to_syslog : BOOLEAN, to_diagslog : BOOLEAN]
MkOutput(S) == [to_stdout |-> "to_stdout" \in S, to_stderr |-> "to_stderr" \in S,
                to_syslog |-> "to_syslog" \in S, to_diagslog |-> "to_diagslog" \in S]
\* The order in which print_va visits the four flags of an entry.
SinkOrder == <<"to_stdout", "to_stderr", "to_syslog", "to_diagslog">>
NoOutput == MkOutput({})

\* ------------------------------------------------------------ tag lists
\* A tag list "a|b" is the sequence of its alternatives; "(" stands for an
\* alternative the pattern compiler rejects.
Tags == {"http", "dns", "cache"}
TagLists == {<<>>, <<"http">>, <<"http", "dns">>, <<"(">>, <<"http", "(">>}
BaseTagLists == {<<>>, <<"http">>}

ValidTagList(L) == \A i \in 1 .. Len(L) : L[i] # "("
\* DFA::compile: the set of alternatives of the list.
Compile(L) == {L[i] : i \in 1 .. Len(L)}
\* DFA::match(tag) != -1
Match(pats, tg) == tg \in pats

\* A DFA object is the set of patterns it holds and how far it is built; a
\* pointer is modelled by the object it refers to, NULL by the object "null".
NULL == [st |-> "null", pats |-> {}]
Building == [st |-> "building", pats |-> {}]
Ready(L) == [st |-> "ready", pats |-> Compile(L)]
\* The tag table of an object that has not been constructed.
Absent == [st |-> "absent", pats |-> {}]

B2S(b) == IF b THEN "true" ELSE "false"

VARIABLES
  enabled,         \* DiagsConfigState::enabled[2] (static)
  outputs,         \* config.outputs[DiagsLevel_Count]
  diags_log_fp,    \* "NULL" or "open"
  cleanup_func,    \* "NULL" or "set"
  activated_tags,  \* DFA *activated_tags[2]
  tag_table_lock,  \* the thread holding the mutex, or NoThread
  terminated,      \* the process has been told to exit
  hook_calls,      \* how many times cleanup_func has been called
  pc, call,        \* each thread's position, and the member it is running
  mode, tag, taglist, dl,      \* the arguments of the running call
  ptr, newobj, ret,            \* its locals and the value it returns
  routed, todo, wrote, hooked, \* print_va: the entry read, flags left, records written
  dangling, looked,            \* history: the object a reader loaded was discarded; what its lookup met
  disturbed, clean,           \* history: calls that raced on one domain; readers nothing disturbed
  flag_owner, seen_owner, stale_lookup, \* history: who set the flag a reader saw
  pre,             \* history: the domain's state when a deactivate_all, or a call with a bad list, began
  tbl_at_flag, torn,           \* history: log_va's view of the configuration
  evaluated, formatted,        \* history: the call's message arguments were evaluated; print_va rendered them
  b_activated_tags,            \* DFA *activated_tags[2] of a second Diags object
  ink_dies                     \* TS_USE_DIAGS undefined: which of the ink_* functions end the process

cfgvars == <<enabled, outputs, diags_log_fp, cleanup_func>>
tagvars == <<activated_tags, tag_table_lock>>
procvars == <<terminated, hook_calls>>
argvars == <<mode, tag, taglist, dl>>
prvars == <<routed, todo, wrote, hooked>>
reconfghost == <<disturbed, pre>>
readghost == <<dangling, looked>>
flagghost == <<flag_owner, seen_owner, stale_lookup>>
cfgghost == <<tbl_at_flag, torn>>
argghost == <<evaluated, formatted>>
extvars == <<evaluated, formatted, b_activated_tags, ink_dies>>
vars == <<enabled, outputs, diags_log_fp, cleanup_func, activated_tags,
          tag_table_lock, terminated, hook_calls, pc, call, mode, tag, taglist, dl,
          ptr, newobj, ret, routed, todo, wrote, hooked, dangling, looked,
          disturbed, clean, flag_owner, seen_owner, stale_lookup, pre,
          tbl_at_flag, torn, evaluated, formatted, b_activated_tags, ink_dies>>

ReconfCalls == {"activate_taglist", "deactivate_all"}
ReaderCalls == {"on", "on_tag", "log_va", "log", "Debug"}
\* The calls that go through log_va: log_va itself, log, and the Diag / Debug macros.
LogCalls == {"log_va", "log", "Debug"}
NoPre == [en |-> FALSE, p |-> NULL, set |-> FALSE]
NoWrote == [s \in Sinks |-> 0]
\* The functions the severity macros name when TS_USE_DIAGS is not defined.
InkFuncs == {"ink_warning", "ink_notice", "ink_error", "ink_fatal_die"}

\* ---------------------------------------------------------- routing tables
\* The tables the output configuration is drawn from.
ScenarioOutputs == [l \in Levels |->
                      IF l = DL_Warning THEN MkOutput({"to_stderr"})
                      ELSE IF l = DL_Fatal THEN MkOutput({"to_stderr", "to_diagslog"})
                      ELSE NoOutput]
AllOutputs == [l \in Levels |-> MkOutput(Sinks)]
DiagsLogOutputs == [l \in Levels |-> MkOutput({"to_diagslog"})]
RoutingTables == {ScenarioOutputs, AllOutputs, DiagsLogOutputs}

\* ------------------------------------------------------------------ Init
\* Every thread is outside the controller.
InitThreads ==
  /\ pc = [t \in Threads |-> "idle"]
  /\ call = [t \in Threads |-> "none"]
  /\ mode = [t \in Threads |-> DiagsTagType_Debug]
  /\ tag = [t \in Threads |-> ""]
  /\ taglist = [t \in Threads |-> <<>>]
  /\ dl = [t \in Threads |-> DL_Diag]
  /\ ptr = [t \in Threads |-> NULL]
  /\ newobj = [t \in Threads |-> NULL]
  /\ ret = [t \in Threads |-> "none"]
  /\ routed = [t \in Threads |-> NoOutput]
  /\ todo = [t \in Threads |-> <<>>]
  /\ wrote = [t \in Threads |-> NoWrote]
  /\ hooked = [t \in Threads |-> FALSE]
  /\ dangling = [t \in Threads |-> FALSE]
  /\ looked = [t \in Threads |-> "none"]
  /\ disturbed = [t \in Threads |-> FALSE]
  /\ clean = [t \in Threads |-> FALSE]
  /\ seen_owner = [t \in Threads |-> NoThread]
  /\ stale_lookup = [t \in Threads |-> FALSE]
  /\ pre = [t \in Threads |-> NoPre]
  /\ tbl_at_flag = [t \in Threads |-> NoOutput]
  /\ torn = [t \in Threads |-> FALSE]
  /\ evaluated = [t \in Threads |-> FALSE]
  /\ formatted = [t \in Threads |-> FALSE]

\* Diags::Diags(base_debug_tags, base_action_tags, _diags_log_fp): a domain with a
\* non-empty base tag list starts enabled with the list's matcher, one with an
\* empty list starts disabled with no matcher.
Construct(bd, ba, fp) ==
  /\ enabled = [m \in TagTypes |-> IF m = DiagsTagType_Debug THEN Len(bd) > 0
                                   ELSE Len(ba) > 0]
  /\ activated_tags = [m \in TagTypes |->
                         IF m = DiagsTagType_Debug
                         THEN (IF Len(bd) > 0 THEN Ready(bd) ELSE NULL)
                         ELSE (IF Len(ba) > 0 THEN Ready(ba) ELSE NULL)]
  /\ tag_table_lock = NoThread
  /\ diags_log_fp = fp
  /\ cleanup_func = "NULL"
  /\ terminated = FALSE
  /\ hook_calls = 0
  /\ flag_owner = [m \in TagTypes |-> NoThread]
  /\ b_activated_tags = [m \in TagTypes |-> Absent]

\* TS_USE_DIAGS is defined: the severity macros call diags->error, and none of
\* the ink_* functions is reached through them.
FullBuild == ink_dies = [f \in InkFuncs |-> FALSE]

Init ==
  /\ \E bd \in BaseTagLists, ba \in BaseTagLists : Construct(bd, ba, "NULL")
  /\ outputs = ScenarioOutputs
  /\ InitThreads
  /\ FullBuild

\* ----------------------------------------------------------------- gates
on_DebugOnly(m) == enabled[DiagsTagType_Debug]

\* bool on(DiagsTagType mode) { return (config.enabled[mode]); }
on(m) == enabled[m]

lock_NoExclusion(t) == tag_table_lock' = t

\* void lock() { ink_mutex_acquire(&tag_table_lock); }
lock(t) == tag_table_lock = NoThread /\ tag_table_lock' = t

unlock_Keep(t) == tag_table_lock' = tag_table_lock

\* void unlock() { ink_mutex_release(&tag_table_lock); }
unlock(t) == tag_table_lock' = NoThread

\* Some other thread is inside activate_taglist or deactivate_all for domain m.
ReconfRunning(t, m) ==
  \E u \in Threads \ {t} : call[u] \in ReconfCalls /\ mode[u] = m /\ pc[u] # "ret"

\* A thread leaves the controller: its call has returned.
ResetLocals(t) ==
  /\ pc' = [pc EXCEPT ![t] = "idle"]
  /\ call' = [call EXCEPT ![t] = "none"]
  /\ mode' = [mode EXCEPT ![t] = DiagsTagType_Debug]
  /\ tag' = [tag EXCEPT ![t] = ""]
  /\ taglist' = [taglist EXCEPT ![t] = <<>>]
  /\ dl' = [dl EXCEPT ![t] = DL_Diag]
  /\ ptr' = [ptr EXCEPT ![t] = NULL]
  /\ newobj' = [newobj EXCEPT ![t] = NULL]
  /\ ret' = [ret EXCEPT ![t] = "none"]
  /\ routed' = [routed EXCEPT ![t] = NoOutput]
  /\ todo' = [todo EXCEPT ![t] = <<>>]
  /\ wrote' = [wrote EXCEPT ![t] = NoWrote]
  /\ hooked' = [hooked EXCEPT ![t] = FALSE]
  /\ dangling' = [dangling EXCEPT ![t] = FALSE]
  /\ looked' = [looked EXCEPT ![t] = "none"]
  /\ disturbed' = [disturbed EXCEPT ![t] = FALSE]
  /\ clean' = [clean EXCEPT ![t] = FALSE]
  /\ stale_lookup' = [stale_lookup EXCEPT ![t] = FALSE]
  /\ pre' = [pre EXCEPT ![t] = NoPre]
  /\ tbl_at_flag' = [tbl_at_flag EXCEPT ![t] = NoOutput]
  /\ torn' = [torn EXCEPT ![t] = FALSE]
  /\ evaluated' = [evaluated EXCEPT ![t] = FALSE]
  /\ formatted' = [formatted EXCEPT ![t] = FALSE]

\* Domain m is settled: a reconfiguration of it has returned, undisturbed by any
\* other, and none has started since (a later one disturbs those before it).
Settled(m) ==
  /\ \E w \in Threads : /\ call[w] \in ReconfCalls /\ mode[w] = m /\ pc[w] = "ret"
                        /\ ~disturbed[w]
  /\ \A u \in Threads : call[u] \in ReconfCalls /\ mode[u] = m => pc[u] = "ret"

\* on(mode): one unsynchronised read of the flag.
CallOn(t) ==
  /\ ~terminated /\ pc[t] = "idle"
  /\ \E m \in TagTypes :
       /\ mode' = [mode EXCEPT ![t] = m]
       /\ ret' = [ret EXCEPT ![t] = B2S(on(m))]
       /\ clean' = [clean EXCEPT ![t] = Settled(m)]
  /\ call' = [call EXCEPT ![t] = "on"]
  /\ pc' = [pc EXCEPT ![t] = "ret"]
  /\ UNCHANGED <<cfgvars, tagvars, procvars, tag, taglist, dl, ptr, newobj,
                 prvars, reconfghost, readghost, flagghost, cfgghost, extvars>>

\* The first operand of the && in on(tag, mode), config.enabled[mode].
ReadFlag(t, m) ==
  /\ seen_owner' = [seen_owner EXCEPT ![t] = IF on(m) THEN flag_owner[m] ELSE NoThread]
  /\ clean' = [clean EXCEPT ![t] = Settled(m)]

\* bool on(const char *tag, DiagsTagType mode)
\*   { return (config.enabled[mode] && tag_activated(tag, mode)); }
\* With the flag false the && is false and tag_activated is not called.
CallOnTag(t) ==
  /\ ~terminated /\ pc[t] = "idle"
  /\ \E tg \in Tags, m \in TagTypes :
       /\ tag' = [tag EXCEPT ![t] = tg]
       /\ mode' = [mode EXCEPT ![t] = m]
       /\ ReadFlag(t, m)
       /\ IF on(m)
          THEN pc' = [pc EXCEPT ![t] = "ta_lock"] /\ ret' = ret
          ELSE pc' = [pc EXCEPT ![t] = "ret"] /\ ret' = [ret EXCEPT ![t] = "false"]
  /\ call' = [call EXCEPT ![t] = "on_tag"]
  /\ UNCHANGED <<cfgvars, tagvars, procvars, taglist, dl, ptr, newobj, prvars,
                 reconfghost, readghost, flag_owner, stale_lookup, cfgghost, extvars>>

\* tag_activated(tag, mode): the lookup in activated_tags[mode], taken under the
\* lock: acquire and load the pointer, match against the object, release.
TagActivatedLock(t) ==
  /\ ~terminated /\ pc[t] = "ta_lock"
  /\ lock(t)
  /\ ptr' = [ptr EXCEPT ![t] = activated_tags[mode[t]]]
  /\ pc' = [pc EXCEPT ![t] = "ta_match"]
  /\ UNCHANGED <<cfgvars, activated_tags, procvars, call, argvars, newobj, ret,
                 prvars, reconfghost, readghost, clean, flagghost, cfgghost, extvars>>

\* The writer whose flag the reader saw has swapped its matcher in.
PastSwap(w) == pc[w] \in {"act_unlock", "act_enable", "ret"}

\* A match against a discarded object is undefined: it may answer either way.
TagActivatedMatch(t) ==
  /\ ~terminated /\ pc[t] = "ta_match"
  /\ \E r \in BOOLEAN :
       /\ dangling[t] \/ r = (ptr[t] # NULL /\ Match(ptr[t].pats, tag[t]))
       /\ ret' = [ret EXCEPT ![t] = B2S(r)]
  /\ looked' = [looked EXCEPT ![t] = IF dangling[t] THEN "discarded" ELSE ptr[t].st]
  /\ stale_lookup' = [stale_lookup EXCEPT ![t] =
                        seen_owner[t] # NoThread /\ ~PastSwap(seen_owner[t])]
  /\ pc' = [pc EXCEPT ![t] = "ta_unlock"]
  /\ UNCHANGED <<cfgvars, tagvars, procvars, call, argvars, ptr, newobj, prvars,
                 reconfghost, dangling, clean, flag_owner, seen_owner, cfgghost, extvars>>

TagActivatedUnlock(t) ==
  /\ ~terminated /\ pc[t] = "ta_unlock"
  /\ unlock(t)
  /\ pc' = [pc EXCEPT ![t] = IF call[t] \in LogCalls THEN "log_gate" ELSE "ret"]
  /\ UNCHANGED <<cfgvars, activated_tags, procvars, call, argvars, ptr, newobj, ret,
                 prvars, reconfghost, readghost, clean, flagghost, cfgghost, extvars>>

\* ------------------------------------------------------- reconfiguration
\* History kept when thread t starts reconfiguring domain m: the calls on the
\* domain that it overlaps or supersedes are marked, and readers of the domain
\* that are under way no longer count as undisturbed.
BeginReconf(t, m) ==
  /\ disturbed' = [u \in Threads |->
                      IF u = t THEN ReconfRunning(t, m)
                      ELSE IF call[u] \in ReconfCalls /\ mode[u] = m THEN TRUE
                      ELSE disturbed[u]]
  /\ clean' = [u \in Threads |->
                 IF call[u] \in ReaderCalls /\ mode[u] = m THEN FALSE ELSE clean[u]]

\* History kept when the matcher of domain m is replaced: the object a reader of
\* m has loaded and not yet used is the one discarded.
Discard(m) ==
  dangling' = [u \in Threads |->
                 IF pc[u] = "ta_match" /\ mode[u] = m /\ ptr[u] # NULL THEN TRUE
                 ELSE dangling[u]]

\* void activate_taglist(char *taglist, DiagsTagType mode): a new matcher object
\* is allocated and compiled outside the lock.
CallActivateTaglist(t) ==
  /\ ~terminated /\ pc[t] = "idle"
  /\ \E L \in TagLists, m \in TagTypes :
       /\ taglist' = [taglist EXCEPT ![t] = L]
       /\ mode' = [mode EXCEPT ![t] = m]
       /\ BeginReconf(t, m)
       /\ pre' = [pre EXCEPT ![t] =
                    IF ValidTagList(L) THEN NoPre
                    ELSE [en |-> enabled[m], p |-> activated_tags[m], set |-> TRUE]]
  /\ newobj' = [newobj EXCEPT ![t] = Building]
  /\ call' = [call EXCEPT ![t] = "activate_taglist"]
  /\ pc' = [pc EXCEPT ![t] = "act_compile"]
  /\ UNCHANGED <<cfgvars, tagvars, procvars, tag, dl, ptr, ret, prvars, readghost,
                 flagghost, cfgghost, extvars>>

ActivateCompile_EnableEarly(t) ==
  /\ ~terminated /\ pc[t] = "act_compile"
  /\ IF ValidTagList(taglist[t])
     THEN /\ newobj' = [newobj EXCEPT ![t] = Ready(taglist[t])]
          /\ enabled' = [enabled EXCEPT ![mode[t]] = @ \/ Len(taglist[t]) > 0]
          /\ flag_owner' = [flag_owner EXCEPT ![mode[t]] =
                              IF Len(taglist[t]) > 0 /\ ~enabled[mode[t]] THEN t ELSE @]
          /\ pc' = [pc EXCEPT ![t] = "act_lock"]
          /\ ret' = ret
     ELSE /\ newobj' = [newobj EXCEPT ![t] = NULL]
          /\ ret' = [ret EXCEPT ![t] = "void"]
          /\ pc' = [pc EXCEPT ![t] = "ret"]
          /\ UNCHANGED <<enabled, flag_owner>>
  /\ UNCHANGED <<outputs, diags_log_fp, cleanup_func, tagvars, procvars, call,
                 argvars, ptr, prvars, reconfghost, readghost, clean, seen_owner,
                 stale_lookup, cfgghost, extvars>>

\* The list is parsed and compiled into the new object; a list the compiler
\* rejects ends the call with the object dropped and nothing published.
ActivateCompile(t) ==
  /\ ~terminated /\ pc[t] = "act_compile"
  /\ IF ValidTagList(taglist[t])
     THEN /\ newobj' = [newobj EXCEPT ![t] = Ready(taglist[t])]
          /\ pc' = [pc EXCEPT ![t] = "act_lock"]
          /\ ret' = ret
     ELSE /\ newobj' = [newobj EXCEPT ![t] = NULL]
          /\ ret' = [ret EXCEPT ![t] = "void"]
          /\ pc' = [pc EXCEPT ![t] = "ret"]
  /\ UNCHANGED <<cfgvars, tagvars, procvars, call, argvars, ptr, prvars,
                 reconfghost, readghost, clean, flagghost, cfgghost, extvars>>

\* Under the lock the new object is published and the old one discarded.
ActivateSwap(t) ==
  /\ ~terminated /\ pc[t] = "act_lock"
  /\ lock(t)
  /\ activated_tags' = [activated_tags EXCEPT ![mode[t]] = newobj[t]]
  /\ Discard(mode[t])
  /\ pc' = [pc EXCEPT ![t] = "act_unlock"]
  /\ UNCHANGED <<cfgvars, procvars, call, argvars, ptr, newobj, ret, prvars,
                 reconfghost, looked, clean, flagghost, cfgghost, extvars>>

ActivateUnlock(t) ==
  /\ ~terminated /\ pc[t] = "act_unlock"
  /\ unlock(t)
  /\ pc' = [pc EXCEPT ![t] = "act_enable"]
  /\ UNCHANGED <<cfgvars, activated_tags, procvars, call, argvars, ptr, newobj, ret,
                 prvars, reconfghost, readghost, clean, flagghost, cfgghost, extvars>>

\* The enable flag is set once the matcher is in place, for a non-empty list.
ActivateEnable(t) ==
  /\ ~terminated /\ pc[t] = "act_enable"
  /\ enabled' = [enabled EXCEPT ![mode[t]] = @ \/ Len(taglist[t]) > 0]
  /\ flag_owner' = [flag_owner EXCEPT ![mode[t]] =
                      IF Len(taglist[t]) > 0 /\ ~enabled[mode[t]] THEN t ELSE @]
  /\ ret' = [ret EXCEPT ![t] = "void"]
  /\ pc' = [pc EXCEPT ![t] = "ret"]
  /\ UNCHANGED <<outputs, diags_log_fp, cleanup_func, tagvars, procvars, call,
                 argvars, ptr, newobj, prvars, reconfghost, readghost, clean,
                 seen_owner, stale_lookup, cfgghost, extvars>>

CallDeactivateAll_BothFlags(t) ==
  /\ ~terminated /\ pc[t] = "idle"
  /\ \E m \in TagTypes :
       /\ mode' = [mode EXCEPT ![t] = m]
       /\ enabled' = [d \in TagTypes |-> FALSE]
       /\ flag_owner' = [flag_owner EXCEPT ![m] = NoThread]
       /\ BeginReconf(t, m)
       /\ pre' = [pre EXCEPT ![t] =
                    [en |-> enabled[m], p |-> activated_tags[m], set |-> TRUE]]
  /\ call' = [call EXCEPT ![t] = "deactivate_all"]
  /\ pc' = [pc EXCEPT ![t] = "deact_lock"]
  /\ UNCHANGED <<outputs, diags_log_fp, cleanup_func, tagvars, procvars, tag,
                 taglist, dl, ptr, newobj, ret, prvars, readghost, seen_owner,
                 stale_lookup, cfgghost, extvars>>

\* void deactivate_all(DiagsTagType mode): the flag is cleared, then the matcher
\* is taken out under the lock and discarded.
CallDeactivateAll(t) ==
  /\ ~terminated /\ pc[t] = "idle"
  /\ \E m \in TagTypes :
       /\ mode' = [mode EXCEPT ![t] = m]
       /\ enabled' = [enabled EXCEPT ![m] = FALSE]
       /\ flag_owner' = [flag_owner EXCEPT ![m] = NoThread]
       /\ BeginReconf(t, m)
       /\ pre' = [pre EXCEPT ![t] =
                    [en |-> enabled[m], p |-> activated_tags[m], set |-> TRUE]]
  /\ call' = [call EXCEPT ![t] = "deactivate_all"]
  /\ pc' = [pc EXCEPT ![t] = "deact_lock"]
  /\ UNCHANGED <<outputs, diags_log_fp, cleanup_func, tagvars, procvars, tag,
                 taglist, dl, ptr, newobj, ret, prvars, readghost, seen_owner,
                 stale_lookup, cfgghost, extvars>>

DeactivateSwap(t) ==
  /\ ~terminated /\ pc[t] = "deact_lock"
  /\ lock(t)
  /\ activated_tags' = [activated_tags EXCEPT ![mode[t]] = NULL]
  /\ Discard(mode[t])
  /\ pc' = [pc EXCEPT ![t] = "deact_unlock"]
  /\ UNCHANGED <<cfgvars, procvars, call, argvars, ptr, newobj, ret, prvars,
                 reconfghost, looked, clean, flagghost, cfgghost, extvars>>

DeactivateUnlock(t) ==
  /\ ~terminated /\ pc[t] = "deact_unlock"
  /\ unlock(t)
  /\ ret' = [ret EXCEPT ![t] = "void"]
  /\ pc' = [pc EXCEPT ![t] = "ret"]
  /\ UNCHANGED <<cfgvars, activated_tags, procvars, call, argvars, ptr, newobj,
                 prvars, reconfghost, readghost, clean, flagghost, cfgghost, extvars>>

\* The call returns to its caller.
Return(t) ==
  /\ ~terminated /\ pc[t] = "ret"
  /\ flag_owner' = [m \in TagTypes |->
                      IF flag_owner[m] = t THEN NoThread ELSE flag_owner[m]]
  /\ seen_owner' = [u \in Threads |->
                      IF u = t \/ seen_owner[u] = t THEN NoThread ELSE seen_owner[u]]
  /\ ResetLocals(t)
  /\ UNCHANGED <<cfgvars, tagvars, procvars, b_activated_tags, ink_dies>>

\* --------------------------------------------- the tag gates, concurrently
Next ==
  \E t \in Threads :
    \/ CallOn(t)
    \/ CallOnTag(t)
    \/ TagActivatedLock(t)
    \/ TagActivatedMatch(t)
    \/ TagActivatedUnlock(t)
    \/ CallActivateTaglist(t)
    \/ ActivateCompile(t)
    \/ ActivateSwap(t)
    \/ ActivateUnlock(t)
    \/ ActivateEnable(t)
    \/ CallDeactivateAll(t)
    \/ DeactivateSwap(t)
    \/ DeactivateUnlock(t)
    \/ Return(t)

Spec == Init /\ [][Next]_vars


\* -------------------------------------------------------------- emission
\* A sink takes a record unless it is the diagnostics file and diags_log_fp is
\* not open.
SinkAvailable(s) == s # "to_diagslog" \/ diags_log_fp # "NULL"

\* The flags set in an entry of the output table, in the order they are visited.
RoutedSeq(o) == SelectSeq(SinkOrder, LAMBDA s : o[s])

\* print_va starts by reading the level's entry of config.outputs.
PrintVaEnter(t, l) ==
  /\ routed' = [routed EXCEPT ![t] = outputs[l]]
  /\ todo' = [todo EXCEPT ![t] = RoutedSeq(outputs[l])]
  /\ formatted' = [formatted EXCEPT ![t] = TRUE]

\* void print(tag, dl, loc, format_string, ...) { ... print_va(...); ... }
\* No gate is consulted.  print is variadic: its caller has evaluated the message
\* arguments.
CallPrintVa(t) ==
  /\ ~terminated /\ pc[t] = "idle"
  /\ \E l \in Levels :
       /\ dl' = [dl EXCEPT ![t] = l]
       /\ PrintVaEnter(t, l)
  /\ evaluated' = [evaluated EXCEPT ![t] = TRUE]
  /\ call' = [call EXCEPT ![t] = "print_va"]
  /\ pc' = [pc EXCEPT ![t] = "pr_write"]
  /\ UNCHANGED <<cfgvars, tagvars, procvars, mode, tag, taglist, ptr, newobj, ret,
                 wrote, hooked, reconfghost, readghost, clean, flagghost, cfgghost,
                 b_activated_tags, ink_dies>>

PrintVaWrite_GiveUpOnUnavailable(t) ==
  /\ ~terminated /\ pc[t] = "pr_write" /\ todo[t] # <<>>
  /\ IF \A i \in 1 .. Len(todo[t]) : SinkAvailable(todo[t][i])
     THEN /\ wrote' = [wrote EXCEPT ![t][Head(todo[t])] = @ + 1]
          /\ todo' = [todo EXCEPT ![t] = Tail(@)]
     ELSE /\ wrote' = wrote
          /\ todo' = [todo EXCEPT ![t] = <<>>]
  /\ UNCHANGED <<cfgvars, tagvars, procvars, pc, call, argvars, ptr, newobj, ret,
                 routed, hooked, reconfghost, readghost, clean, flagghost, cfgghost, extvars>>

\* The record goes to the next sink of the entry; a sink that is not available is
\* passed over.
PrintVaWrite(t) ==
  /\ ~terminated /\ pc[t] = "pr_write" /\ todo[t] # <<>>
  /\ wrote' = IF SinkAvailable(Head(todo[t]))
              THEN [wrote EXCEPT ![t][Head(todo[t])] = @ + 1]
              ELSE wrote
  /\ todo' = [todo EXCEPT ![t] = Tail(@)]
  /\ UNCHANGED <<cfgvars, tagvars, procvars, pc, call, argvars, ptr, newobj, ret,
                 routed, hooked, reconfghost, readghost, clean, flagghost, cfgghost, extvars>>

\* After the last sink: a terminal level goes on to the cleanup function and the
\* exit, any other level returns.
PrintVaWritten(t) ==
  /\ ~terminated /\ pc[t] = "pr_write" /\ todo[t] = <<>>
  /\ IF DiagsLevel_IsTerminal(dl[t])
     THEN pc' = [pc EXCEPT ![t] = "pr_cleanup"] /\ ret' = ret
     ELSE pc' = [pc EXCEPT ![t] = "ret"] /\ ret' = [ret EXCEPT ![t] = "void"]
  /\ UNCHANGED <<cfgvars, tagvars, procvars, call, argvars, ptr, newobj, prvars,
                 reconfghost, readghost, clean, flagghost, cfgghost, extvars>>

\* cleanup_func is called when it is set ("Called before ink_fatal to cleanup
\* process state").
PrintVaCleanup(t) ==
  /\ ~terminated /\ pc[t] = "pr_cleanup"
  /\ IF cleanup_func = "set"
     THEN hook_calls' = hook_calls + 1 /\ hooked' = [hooked EXCEPT ![t] = TRUE]
     ELSE UNCHANGED <<hook_calls, hooked>>
  /\ pc' = [pc EXCEPT ![t] = "pr_exit"]
  /\ UNCHANGED <<cfgvars, tagvars, terminated, call, argvars, ptr, newobj, ret,
                 routed, todo, wrote, reconfghost, readghost, clean, flagghost,
                 cfgghost, extvars>>

\* The process is told to exit; no thread takes another step.
PrintVaExit(t) ==
  /\ ~terminated /\ pc[t] = "pr_exit"
  /\ terminated' = TRUE
  /\ pc' = [pc EXCEPT ![t] = "exited"]
  /\ UNCHANGED <<cfgvars, tagvars, hook_calls, call, argvars, ptr, newobj, ret,
                 prvars, reconfghost, readghost, clean, flagghost, cfgghost, extvars>>

\* The levels the tag-filtered macros (Diag, Debug) pass to log.
LogLevels == {DL_Diag, DL_Debug}

\* void log_va(tag, dl, loc, format_string, ap)
\*   { if (!on(tag)) return; print_va(tag, dl, loc, format_string, ap); }
\* on(tag) is on(tag, DiagsTagType_Debug), whatever the level.  The va_list holds
\* arguments the caller has evaluated already.
CallLogVa(t) ==
  /\ ~terminated /\ pc[t] = "idle"
  /\ \E tg \in Tags, l \in LogLevels :
       /\ tag' = [tag EXCEPT ![t] = tg]
       /\ dl' = [dl EXCEPT ![t] = l]
       /\ tbl_at_flag' = [tbl_at_flag EXCEPT ![t] = outputs[l]]
  /\ ReadFlag(t, DiagsTagType_Debug)
  /\ IF on(DiagsTagType_Debug)
     THEN pc' = [pc EXCEPT ![t] = "ta_lock"] /\ ret' = ret
     ELSE pc' = [pc EXCEPT ![t] = "ret"] /\ ret' = [ret EXCEPT ![t] = "void"]
  /\ call' = [call EXCEPT ![t] = "log_va"]
  /\ evaluated' = [evaluated EXCEPT ![t] = TRUE]
  /\ UNCHANGED <<cfgvars, tagvars, procvars, mode, taglist, ptr, newobj, prvars,
                 reconfghost, readghost, flag_owner, stale_lookup, torn, formatted,
                 b_activated_tags, ink_dies>>

LogVaGate_NoGate(t) ==
  /\ ~terminated /\ pc[t] = "log_gate"
  /\ PrintVaEnter(t, dl[t])
  /\ torn' = [torn EXCEPT ![t] = ~enabled[DiagsTagType_Debug]
                                 /\ outputs[dl[t]] # tbl_at_flag[t]]
  /\ ret' = [ret EXCEPT ![t] = "none"]
  /\ pc' = [pc EXCEPT ![t] = "pr_write"]
  /\ UNCHANGED <<cfgvars, tagvars, procvars, call, argvars, ptr, newobj, wrote,
                 hooked, reconfghost, readghost, clean, flagghost, tbl_at_flag,
                 evaluated, b_activated_tags, ink_dies>>

\* on(tag) has answered: print_va is entered when it answered true.  The entry of
\* the output table is read now, the flag was read when log_va began.
LogVaGate(t) ==
  /\ ~terminated /\ pc[t] = "log_gate"
  /\ IF ret[t] = "true"
     THEN /\ PrintVaEnter(t, dl[t])
          /\ torn' = [torn EXCEPT ![t] = ~enabled[DiagsTagType_Debug]
                                         /\ outputs[dl[t]] # tbl_at_flag[t]]
          /\ ret' = [ret EXCEPT ![t] = "none"]
          /\ pc' = [pc EXCEPT ![t] = "pr_write"]
     ELSE /\ ret' = [ret EXCEPT ![t] = "void"]
          /\ pc' = [pc EXCEPT ![t] = "ret"]
          /\ UNCHANGED <<routed, todo, torn, formatted>>
  /\ UNCHANGED <<cfgvars, tagvars, procvars, call, argvars, ptr, newobj, wrote,
                 hooked, reconfghost, readghost, clean, flagghost, tbl_at_flag,
                 evaluated, b_activated_tags, ink_dies>>

\* A new configuration (both enable flags and the output table) is stored into
\* diags->config in one step by a thread outside the controller.
ConfigPublish(t) ==
  /\ ~terminated /\ pc[t] = "idle"
  /\ \E e \in [TagTypes -> BOOLEAN], o \in RoutingTables :
       /\ <<e, o>> # <<enabled, outputs>>
       /\ enabled' = e
       /\ outputs' = o
  /\ flag_owner' = [m \in TagTypes |-> NoThread]
  /\ clean' = [u \in Threads |-> FALSE]
  /\ disturbed' = [u \in Threads |-> call[u] \in ReconfCalls \/ disturbed[u]]
  /\ UNCHANGED <<diags_log_fp, cleanup_func, tagvars, procvars, pc, call, argvars,
                 ptr, newobj, ret, prvars, pre, readghost, seen_owner, stale_lookup,
                 cfgghost, extvars>>

\* ------------------------------------------- emission alone, concurrently
InitEmit ==
  /\ \E fp \in {"NULL", "open"} : Construct(<<"http">>, <<>>, fp)
  /\ outputs \in RoutingTables
  /\ InitThreads
  /\ FullBuild

\* Diags::cleanup_func is a public member: the host sets it before it starts
\* its threads.
SetCleanupFunc ==
  /\ cleanup_func = "NULL" /\ ~terminated
  /\ \A t \in Threads : pc[t] = "idle"
  /\ hook_calls = 0
  /\ cleanup_func' = "set"
  /\ UNCHANGED <<enabled, outputs, diags_log_fp, tagvars, procvars, pc, call,
                 argvars, ptr, newobj, ret, prvars, reconfghost, readghost, clean,
                 flagghost, cfgghost, extvars>>

NextEmit ==
  \/ SetCleanupFunc
  \/ \E t \in Threads :
       \/ CallPrintVa(t)
       \/ PrintVaWrite(t)
       \/ PrintVaWritten(t)
       \/ PrintVaCleanup(t)
       \/ PrintVaExit(t)
       \/ Return(t)

SpecEmit == InitEmit /\ [][NextEmit]_vars

\* ------------------- log_va and print_va while the configuration is replaced
InitCfg ==
  /\ \E bd \in BaseTagLists : Construct(bd, <<>>, "open")
  /\ outputs \in RoutingTables
  /\ InitThreads
  /\ FullBuild

NextCfg ==
  \E t \in Threads :
    \/ CallLogVa(t)
    \/ TagActivatedLock(t)
    \/ TagActivatedMatch(t)
    \/ TagActivatedUnlock(t)
    \/ LogVaGate(t)
    \/ CallPrintVa(t)
    \/ PrintVaWrite(t)
    \/ PrintVaWritten(t)
    \/ PrintVaCleanup(t)
    \/ PrintVaExit(t)
    \/ ConfigPublish(t)
    \/ Return(t)

SpecCfg == InitCfg /\ [][NextCfg]_vars


\* ------------------------------------------------ the tag-filtered family
\* DiagsConfigState::enabled is a public static member: the host stores a flag
\* into it directly, here while no thread is inside the controller.
SetEnabled ==
  /\ ~terminated
  /\ \A t \in Threads : pc[t] = "idle"
  /\ \E m \in TagTypes :
       /\ enabled' = [enabled EXCEPT ![m] = ~enabled[m]]
       /\ flag_owner' = [flag_owner EXCEPT ![m] = NoThread]
  /\ UNCHANGED <<outputs, diags_log_fp, cleanup_func, tagvars, procvars, pc, call,
                 argvars, ptr, newobj, ret, prvars, reconfghost, readghost, clean,
                 seen_owner, stale_lookup, cfgghost, extvars>>

CallDebugMacro_NoGate(t) ==
  /\ ~terminated /\ pc[t] = "idle"
  /\ \E tg \in Tags, l \in LogLevels :
       /\ tag' = [tag EXCEPT ![t] = tg]
       /\ dl' = [dl EXCEPT ![t] = l]
  /\ call' = [call EXCEPT ![t] = "Debug"]
  /\ pc' = [pc EXCEPT ![t] = "log_call"] /\ ret' = ret
  /\ UNCHANGED <<cfgvars, tagvars, procvars, mode, taglist, ptr, newobj, prvars,
                 reconfghost, readghost, clean, flagghost, cfgghost, extvars>>

\* #define Diag(tag, ...)  if (unlikely(diags->on())) diags->log(tag, DTA(DL_Diag), __VA_ARGS__)
\* #define Debug(tag, ...) if (unlikely(diags->on())) diags->log(tag, DTA(DL_Debug), __VA_ARGS__)
\* With the flag false the statement ends: log is not called and its arguments
\* are not evaluated.
CallDebugMacro(t) ==
  /\ ~terminated /\ pc[t] = "idle"
  /\ \E tg \in Tags, l \in LogLevels :
       /\ tag' = [tag EXCEPT ![t] = tg]
       /\ dl' = [dl EXCEPT ![t] = l]
  /\ call' = [call EXCEPT ![t] = "Debug"]
  /\ IF on(DiagsTagType_Debug)
     THEN pc' = [pc EXCEPT ![t] = "log_call"] /\ ret' = ret
     ELSE pc' = [pc EXCEPT ![t] = "ret"] /\ ret' = [ret EXCEPT ![t] = "void"]
  /\ UNCHANGED <<cfgvars, tagvars, procvars, mode, taglist, ptr, newobj, prvars,
                 reconfghost, readghost, clean, flagghost, cfgghost, extvars>>

\* The first statement of log_va, if (!on(tag)) return; for tag tg and level l.
LogVaTest(t, tg, l) ==
  /\ tag' = [tag EXCEPT ![t] = tg]
  /\ dl' = [dl EXCEPT ![t] = l]
  /\ tbl_at_flag' = [tbl_at_flag EXCEPT ![t] = outputs[l]]
  /\ ReadFlag(t, DiagsTagType_Debug)
  /\ IF on(DiagsTagType_Debug)
     THEN pc' = [pc EXCEPT ![t] = "ta_lock"] /\ ret' = ret
     ELSE pc' = [pc EXCEPT ![t] = "ret"] /\ ret' = [ret EXCEPT ![t] = "void"]

\* The macro's call of log: the arguments are evaluated, and log hands them to
\* log_va.
MacroLog(t) ==
  /\ ~terminated /\ pc[t] = "log_call"
  /\ evaluated' = [evaluated EXCEPT ![t] = TRUE]
  /\ LogVaTest(t, tag[t], dl[t])
  /\ UNCHANGED <<cfgvars, tagvars, procvars, call, mode, taglist, ptr, newobj,
                 prvars, reconfghost, readghost, flag_owner, stale_lookup, torn,
                 formatted, b_activated_tags, ink_dies>>

\* void log(tag, dl, file, func, line, format_string, ...) called directly, at any
\* level: variadic, so its caller has evaluated the arguments; it hands them to
\* log_va.
CallLog(t) ==
  /\ ~terminated /\ pc[t] = "idle"
  /\ \E tg \in Tags, l \in Levels : LogVaTest(t, tg, l)
  /\ call' = [call EXCEPT ![t] = "log"]
  /\ evaluated' = [evaluated EXCEPT ![t] = TRUE]
  /\ UNCHANGED <<cfgvars, tagvars, procvars, mode, taglist, ptr, newobj, prvars,
                 reconfghost, readghost, flag_owner, stale_lookup, torn, formatted,
                 b_activated_tags, ink_dies>>

InitLog ==
  /\ \E bd \in BaseTagLists : Construct(bd, <<>>, "open")
  /\ outputs = AllOutputs
  /\ InitThreads
  /\ FullBuild

NextLog ==
  \/ SetEnabled
  \/ \E t \in Threads :
       \/ CallDebugMacro(t)
       \/ MacroLog(t)
       \/ CallLog(t)
       \/ TagActivatedLock(t)
       \/ TagActivatedMatch(t)
       \/ TagActivatedUnlock(t)
       \/ LogVaGate(t)
       \/ CallPrintVa(t)
       \/ PrintVaWrite(t)
       \/ PrintVaWritten(t)
       \/ PrintVaCleanup(t)
       \/ PrintVaExit(t)
       \/ Return(t)

SpecLog == InitLog /\ [][NextLog]_vars


\* ---------------------------------------------- the unconditional family
\* The levels the macros Status, Note, Warning, Error, Fatal, Alert and Emergency
\* pass to error.
ErrorLevels == DL_Status .. DL_Emergency

CallErrorMacro_TagGated(t) ==
  /\ ~terminated /\ pc[t] = "idle"
  /\ \E l \in ErrorLevels : dl' = [dl EXCEPT ![t] = l]
  /\ call' = [call EXCEPT ![t] = "error"]
  /\ evaluated' = [evaluated EXCEPT ![t] = on(DiagsTagType_Debug)]
  /\ IF on(DiagsTagType_Debug)
     THEN pc' = [pc EXCEPT ![t] = "error"] /\ ret' = ret
     ELSE pc' = [pc EXCEPT ![t] = "ret"] /\ ret' = [ret EXCEPT ![t] = "void"]
  /\ UNCHANGED <<cfgvars, tagvars, procvars, mode, tag, taglist, ptr, newobj,
                 prvars, reconfghost, readghost, clean, flagghost, cfgghost,
                 formatted, b_activated_tags, ink_dies>>

\* #define Status(...)  diags->error(DTA(DL_Status), __VA_ARGS__)   ... and so on
\* to Emergency: error is called whatever the flags and the tag tables hold, with
\* no tag.
CallErrorMacro(t) ==
  /\ ~terminated /\ pc[t] = "idle"
  /\ \E l \in ErrorLevels : dl' = [dl EXCEPT ![t] = l]
  /\ call' = [call EXCEPT ![t] = "error"]
  /\ evaluated' = [evaluated EXCEPT ![t] = TRUE]
  /\ pc' = [pc EXCEPT ![t] = "error"]
  /\ UNCHANGED <<cfgvars, tagvars, procvars, mode, tag, taglist, ptr, newobj, ret,
                 prvars, reconfghost, readghost, clean, flagghost, cfgghost,
                 formatted, b_activated_tags, ink_dies>>

\* void error(dl, file, func, line, format_string, ...): hands the message to
\* print_va, consulting no gate.
ErrorBody(t) ==
  /\ ~terminated /\ pc[t] = "error"
  /\ PrintVaEnter(t, dl[t])
  /\ pc' = [pc EXCEPT ![t] = "pr_write"]
  /\ UNCHANGED <<cfgvars, tagvars, procvars, call, argvars, ptr, newobj, ret,
                 wrote, hooked, reconfghost, readghost, clean, flagghost, cfgghost,
                 evaluated, b_activated_tags, ink_dies>>

InitErr ==
  /\ \E bd \in BaseTagLists, ba \in BaseTagLists, fp \in {"NULL", "open"} :
       Construct(bd, ba, fp)
  /\ outputs \in RoutingTables
  /\ InitThreads
  /\ FullBuild

NextErr ==
  \/ SetEnabled
  \/ \E t \in Threads :
       \/ CallErrorMacro(t)
       \/ ErrorBody(t)
       \/ PrintVaWrite(t)
       \/ PrintVaWritten(t)
       \/ PrintVaCleanup(t)
       \/ PrintVaExit(t)
       \/ Return(t)

SpecErr == InitErr /\ [][NextErr]_vars


\* ------------- log_va and print_va while the tag tables are reconfigured
InitLock ==
  /\ \E bd \in BaseTagLists : Construct(bd, <<>>, "open")
  /\ outputs = AllOutputs
  /\ InitThreads
  /\ FullBuild

NextLock ==
  \E t \in Threads :
    \/ CallLogVa(t)
    \/ TagActivatedLock(t)
    \/ TagActivatedMatch(t)
    \/ TagActivatedUnlock(t)
    \/ LogVaGate(t)
    \/ PrintVaWrite(t)
    \/ PrintVaWritten(t)
    \/ CallActivateTaglist(t)
    \/ ActivateCompile(t)
    \/ ActivateSwap(t)
    \/ ActivateUnlock(t)
    \/ ActivateEnable(t)
    \/ CallDeactivateAll(t)
    \/ DeactivateSwap(t)
    \/ DeactivateUnlock(t)
    \/ Return(t)

SpecLock == InitLock /\ [][NextLock]_vars


\* ------------------------------------------------- a second Diags object
\* Diags::Diags run for a second object, while no thread is inside the first: it
\* builds the object's own two tag tables and sets the enable flags from its
\* base tag lists.  DiagsConfigState::enabled is static, so the flags it sets are
\* the ones the first object reads.
ConstructSecond ==
  /\ ~terminated
  /\ \A t \in Threads : pc[t] = "idle"
  /\ \A m \in TagTypes : b_activated_tags[m] = Absent
  /\ \E bd \in BaseTagLists, ba \in {<<>>} :
       /\ enabled' = [m \in TagTypes |-> IF m = DiagsTagType_Debug THEN Len(bd) > 0
                                         ELSE Len(ba) > 0]
       /\ b_activated_tags' =
            [m \in TagTypes |->
               IF m = DiagsTagType_Debug
               THEN (IF Len(bd) > 0 THEN Ready(bd) ELSE NULL)
               ELSE (IF Len(ba) > 0 THEN Ready(ba) ELSE NULL)]
  /\ flag_owner' = [m \in TagTypes |-> NoThread]
  /\ UNCHANGED <<outputs, diags_log_fp, cleanup_func, tagvars, procvars, pc, call,
                 argvars, ptr, newobj, ret, prvars, reconfghost, readghost, clean,
                 seen_owner, stale_lookup, cfgghost, argghost, ink_dies>>

\* on(mode) of the second object: config.enabled is the same static array.
b_on(m) == enabled[m]

\* on(tag, mode) of the second object: the static flag and the object's own table.
b_on_tag(tg, m) ==
  enabled[m] /\ b_activated_tags[m] # NULL /\ Match(b_activated_tags[m].pats, tg)

InitTwo ==
  /\ \E bd \in BaseTagLists : Construct(bd, <<>>, "NULL")
  /\ outputs = ScenarioOutputs
  /\ InitThreads
  /\ FullBuild

\* The first object is reconfigured by the threads; the second is only asked.
NextTwo ==
  \/ ConstructSecond
  \/ \E t \in Threads :
       \/ CallActivateTaglist(t)
       \/ ActivateCompile(t)
       \/ ActivateSwap(t)
       \/ ActivateUnlock(t)
       \/ ActivateEnable(t)
       \/ CallDeactivateAll(t)
       \/ DeactivateSwap(t)
       \/ DeactivateUnlock(t)
       \/ Return(t)

SpecTwo == InitTwo /\ [][NextTwo]_vars


\* ------------------------------------------------- fair scheduling
\* The steps of thread t that wait for nothing: a scheduled thread takes them.
Progress(t) ==
  \/ TagActivatedMatch(t) \/ TagActivatedUnlock(t)
  \/ ActivateCompile(t) \/ ActivateUnlock(t) \/ ActivateEnable(t)
  \/ DeactivateUnlock(t)
  \/ Return(t)

\* The steps of thread t that begin with lock(): ink_mutex_acquire.
Acquire(t) == TagActivatedLock(t) \/ ActivateSwap(t) \/ DeactivateSwap(t)

\* Every thread inside the controller keeps being scheduled, and a thread waiting
\* in ink_mutex_acquire gets the mutex if it is released again and again.  A
\* thread outside the controller need not call in.
Fairness ==
  \A t \in Threads : WF_vars(Progress(t)) /\ SF_vars(Acquire(t))

\* The tag gates and the reconfiguration calls on the Debug domain, with the tag
\* "http" and with one list that compiles and one that does not.
LiveTagLists == {<<"http">>, <<"(">>}

NextLive ==
  \E t \in Threads :
    \/ CallOnTag(t) /\ tag'[t] = "http" /\ mode'[t] = DiagsTagType_Debug
    \/ TagActivatedLock(t)
    \/ TagActivatedMatch(t)
    \/ TagActivatedUnlock(t)
    \/ CallActivateTaglist(t) /\ taglist'[t] \in LiveTagLists
                              /\ mode'[t] = DiagsTagType_Debug
    \/ ActivateCompile(t)
    \/ ActivateSwap(t)
    \/ ActivateUnlock(t)
    \/ ActivateEnable(t)
    \/ CallDeactivateAll(t) /\ mode'[t] = DiagsTagType_Debug
    \/ DeactivateSwap(t)
    \/ DeactivateUnlock(t)
    \/ Return(t)

SpecLive == Init /\ [][NextLive]_vars /\ Fairness


\* ------------------------------------- the build without TS_USE_DIAGS
\* #define Warning ink_warning, Note ink_notice, Status ink_notice,
\* Fatal ink_fatal_die, Error ink_error, Alert ink_error, Emergency ink_fatal_die
InkFuncOf(l) ==
  IF l = DL_Warning THEN "ink_warning"
  ELSE IF l \in {DL_Note, DL_Status} THEN "ink_notice"
  ELSE IF l \in {DL_Fatal, DL_Emergency} THEN "ink_fatal_die"
  ELSE "ink_error"

\* class Diags of this build has no members and an empty constructor: the state
\* of the full build is unused and stays as an empty controller has it.  The ink_*
\* functions are defined elsewhere: ink_fatal_die is taken to end the process,
\* ink_warning and ink_notice to return, and ink_error to do either, the same
\* at every call.
InitNoDiags ==
  /\ Construct(<<>>, <<>>, "NULL")
  /\ outputs = [l \in Levels |-> NoOutput]
  /\ InitThreads
  /\ ink_dies \in {d \in [InkFuncs -> BOOLEAN] :
                     d["ink_fatal_die"] /\ ~d["ink_warning"] /\ ~d["ink_notice"]}

\* bool on(DiagsTagType mode) { return false; }
NdOn(t) ==
  /\ ~terminated /\ pc[t] = "idle"
  /\ \E m \in TagTypes : mode' = [mode EXCEPT ![t] = m]
  /\ call' = [call EXCEPT ![t] = "on"]
  /\ ret' = [ret EXCEPT ![t] = B2S(FALSE)]
  /\ pc' = [pc EXCEPT ![t] = "ret"]
  /\ UNCHANGED <<cfgvars, tagvars, procvars, tag, taglist, dl, ptr, newobj,
                 prvars, reconfghost, readghost, clean, flagghost, cfgghost, extvars>>

\* bool on(const char *tag, DiagsTagType mode) { return false; }
NdOnTag(t) ==
  /\ ~terminated /\ pc[t] = "idle"
  /\ \E tg \in Tags, m \in TagTypes :
       /\ tag' = [tag EXCEPT ![t] = tg]
       /\ mode' = [mode EXCEPT ![t] = m]
  /\ call' = [call EXCEPT ![t] = "on_tag"]
  /\ ret' = [ret EXCEPT ![t] = B2S(FALSE)]
  /\ pc' = [pc EXCEPT ![t] = "ret"]
  /\ UNCHANGED <<cfgvars, tagvars, procvars, taglist, dl, ptr, newobj, prvars,
                 reconfghost, readghost, clean, flagghost, cfgghost, extvars>>

\* #define Diag(tag, fmt, ...)  if (0) dummy_debug(tag, __VA_ARGS__)
\* #define Debug(tag, fmt, ...) if (0) dummy_debug(tag, __VA_ARGS__)
NdDebugMacro(t) ==
  /\ ~terminated /\ pc[t] = "idle"
  /\ \E tg \in Tags, l \in LogLevels :
       /\ tag' = [tag EXCEPT ![t] = tg]
       /\ dl' = [dl EXCEPT ![t] = l]
  /\ call' = [call EXCEPT ![t] = "Debug"]
  /\ ret' = [ret EXCEPT ![t] = "void"]
  /\ pc' = [pc EXCEPT ![t] = "ret"]
  /\ UNCHANGED <<cfgvars, tagvars, procvars, mode, taglist, ptr, newobj, prvars,
                 reconfghost, readghost, clean, flagghost, cfgghost, extvars>>

\* A severity macro names the ink_* function it is defined as; the arguments are
\* evaluated for the call.
NdSeverityMacro(t) ==
  /\ ~terminated /\ pc[t] = "idle"
  /\ \E l \in ErrorLevels :
       /\ dl' = [dl EXCEPT ![t] = l]
       /\ call' = [call EXCEPT ![t] = InkFuncOf(l)]
  /\ evaluated' = [evaluated EXCEPT ![t] = TRUE]
  /\ pc' = [pc EXCEPT ![t] = "ink"]
  /\ UNCHANGED <<cfgvars, tagvars, procvars, mode, tag, taglist, ptr, newobj, ret,
                 prvars, reconfghost, readghost, clean, flagghost, cfgghost,
                 formatted, b_activated_tags, ink_dies>>

\* The ink_* function runs: it ends the process or returns.
NdInk(t) ==
  /\ ~terminated /\ pc[t] = "ink"
  /\ IF ink_dies[call[t]]
     THEN /\ terminated' = TRUE
          /\ pc' = [pc EXCEPT ![t] = "exited"]
          /\ ret' = ret
     ELSE /\ terminated' = terminated
          /\ pc' = [pc EXCEPT ![t] = "ret"]
          /\ ret' = [ret EXCEPT ![t] = "void"]
  /\ UNCHANGED <<cfgvars, tagvars, hook_calls, call, argvars, ptr, newobj, prvars,
                 reconfghost, readghost, clean, flagghost, cfgghost, extvars>>

NextNoDiags ==
  \E t \in Threads :
    \/ NdOn(t)
    \/ NdOnTag(t)
    \/ NdDebugMacro(t)
    \/ NdSeverityMacro(t)
    \/ NdInk(t)
    \/ Return(t)

SpecNoDiags == InitNoDiags /\ [][NextNoDiags]_vars


\* ================================================================ claims
\* What on(tag, mode) answers when evaluated in the current state at once.
OnTagNow(tg, m) == on(m) /\ activated_tags[m] # NULL /\ Match(activated_tags[m].pats, tg)

\* Tag tg matches some pattern of the list L.
InList(tg, L) == \E i \in 1 .. Len(L) : L[i] = tg

\* Thread w's reconfiguration call of kind k has returned, no other
\* reconfiguration of its domain ran during it, and none has started since.
ReturnedAlone(w, k) ==
  /\ pc[w] = "ret" /\ call[w] = k
  /\ ~disturbed[w] /\ ~ReconfRunning(w, mode[w])

\* Reader r ran on(tag, m) or on(m) from start to end while domain m was settled,
\* and has its answer.
ReadSettled(r, k, m) ==
  pc[r] = "ret" /\ call[r] = k /\ mode[r] = m /\ clean[r]

\* C1: once activate_taglist(L, D) has returned, with no other reconfiguration of
\* D running, on(t, D) is true exactly for the tags t that match a pattern of L:
\* both the gate evaluated in that state and the answer of every reader that ran
\* wholly after the return.
C1_ActivatedListDecidesGate ==
  \A w \in Threads :
    (ReturnedAlone(w, "activate_taglist") /\ ValidTagList(taglist[w])) =>
      /\ \A tg \in Tags : OnTagNow(tg, mode[w]) <=> InList(tg, taglist[w])
      /\ \A r \in Threads :
           ReadSettled(r, "on_tag", mode[w]) =>
             ret[r] = B2S(InList(tag[r], taglist[w]))

\* C1 witness: activate_taglist("http|dns", D) found D's flag false and set it,
\* returned undisturbed, and a reader that then asked for "dns" was told true.
C1_Witness ==
  \E w \in Threads, r \in Threads :
    /\ ReturnedAlone(w, "activate_taglist") /\ taglist[w] = <<"http", "dns">>
    /\ flag_owner[mode[w]] = w
    /\ ReadSettled(r, "on_tag", mode[w]) /\ tag[r] = "dns" /\ ret[r] = "true"

\* C2: once deactivate_all(D) has returned, with no other reconfiguration of D
\* running, on(D) is false and on(t, D) is false for every tag t, whatever D's
\* state was before: in that state, and for every reader that ran after the return.
C2_DeactivatedDomainIsOff ==
  \A w \in Threads :
    ReturnedAlone(w, "deactivate_all") =>
      /\ ~on(mode[w])
      /\ \A tg \in Tags : ~OnTagNow(tg, mode[w])
      /\ \A r \in Threads :
           /\ ReadSettled(r, "on", mode[w]) => ret[r] = "false"
           /\ ReadSettled(r, "on_tag", mode[w]) => ret[r] = "false"

\* C2 witness: deactivate_all(D) found D enabled with a non-empty matcher,
\* returned undisturbed, and a reader that then asked on(D) was told false.
C2_Witness ==
  \E w \in Threads, r \in Threads :
    /\ ReturnedAlone(w, "deactivate_all")
    /\ pre[w].en /\ pre[w].p # NULL /\ pre[w].p.pats # {}
    /\ ReadSettled(r, "on", mode[w]) /\ ret[r] = "false"

\* C5: every lookup tag_activated performs meets either no matcher or one whole,
\* compiled matcher that is still the published one when it is used: never one
\* under construction, never one already discarded.
C5_LookupSeesWholeMatcher ==
  \A t \in Threads :
    /\ ~dangling[t]
    /\ looked[t] \in {"none", "null", "ready"}
    /\ pc[t] = "ta_match" => ptr[t] = activated_tags[mode[t]]

\* C5 witness: a reader has matched against a compiled matcher while an
\* activate_taglist for the same domain waits for the lock with the next one.
C5_Witness ==
  \E r \in Threads, w \in Threads :
    /\ pc[r] = "ta_unlock" /\ looked[r] = "ready"
    /\ pc[w] = "act_lock" /\ mode[w] = mode[r] /\ newobj[w] # ptr[r]

\* C6: a reader that read the enable flag as true when an activate_taglist still
\* in progress had just turned it from false to true never does its lookup before
\* that call has published its matcher (a replacement published after it counts
\* as later, the empty table of a later deactivate_all included).
C6_FlagNotBeforeMatcher ==
  \A t \in Threads : ~stale_lookup[t]

\* C6 witness: a reader saw the flag newly set by an activate_taglist that has not
\* yet returned, and matched against the matcher that call published.
C6_Witness ==
  \E r \in Threads :
    /\ pc[r] = "ta_unlock" /\ seen_owner[r] # NoThread
    /\ pc[seen_owner[r]] = "ret" /\ ptr[r] = newobj[seen_owner[r]]
    /\ looked[r] = "ready"

\* An activate_taglist call with a list the compiler rejects has returned, alone
\* on its domain.
BadListReturned(t) ==
  /\ ReturnedAlone(t, "activate_taglist") /\ ~ValidTagList(taglist[t])

\* The all-or-nothing half of C10: after such a call the domain's flag and
\* matcher are the ones it found.
C10_PriorStateKept ==
  \A t \in Threads :
    BadListReturned(t) =>
      /\ enabled[mode[t]] = pre[t].en
      /\ activated_tags[mode[t]] = pre[t].p

\* C10: activate_taglist with a list the compiler rejects leaves the domain's
\* flag and matcher as they were and hands the caller a status that reports the
\* failure.
C10_BadListKeepsStateAndReports ==
  \A t \in Threads :
    BadListReturned(t) =>
      /\ enabled[mode[t]] = pre[t].en
      /\ activated_tags[mode[t]] = pre[t].p
      /\ ret[t] = "failure"

\* ------------------------------------------------------ emission claims
TerminalLevels == {DL_Fatal, DL_Alert, DL_Emergency}

\* Thread t's emission has been through every sink of the entry it read: one
\* record on each routed sink that is available, none anywhere else.
WritesDone(t) ==
  /\ todo[t] = <<>>
  /\ \A s \in Sinks :
       wrote[t][s] = IF routed[t][s] /\ SinkAvailable(s) THEN 1 ELSE 0

\* C3: an emission at Fatal, Alert or Emergency first goes through every routed
\* sink, then calls the cleanup function if one is set, then signals the exit;
\* this holds when no sink is routed or none takes the record, such an emission
\* never returns to its caller, and the exit is never signalled before the writes
\* and the cleanup call of the emission that signals it.
C3_TerminalOrder ==
  /\ \A t \in Threads :
       /\ pc[t] \in {"pr_cleanup", "pr_exit", "exited"} =>
            dl[t] \in TerminalLevels /\ WritesDone(t)
       /\ pc[t] \in {"pr_exit", "exited"} => (cleanup_func = "set" => hooked[t])
       /\ hooked[t] => pc[t] \in {"pr_exit", "exited"}
       /\ (pc[t] = "ret" /\ call[t] = "print_va") => dl[t] \notin TerminalLevels
  /\ terminated => \E t \in Threads : pc[t] = "exited"

\* C3 witness: a Fatal emission routed to the diagnostics file alone, with the
\* file not open, wrote nothing, called the cleanup function and signalled the exit.
C3_Witness ==
  \E t \in Threads :
    /\ pc[t] = "exited" /\ terminated /\ hooked[t] /\ dl[t] = DL_Fatal
    /\ routed[t] = MkOutput({"to_diagslog"}) /\ diags_log_fp = "NULL"
    /\ wrote[t] = NoWrote

\* C4: the cleanup function is called at most once in any execution, and exactly
\* once when one is set and the process has been told to exit.
C4_CleanupOnce ==
  /\ hook_calls <= 1
  /\ (terminated /\ cleanup_func = "set") => hook_calls = 1

\* C7: the flag log_va read and the output-table entry its print_va then read
\* belong to one configuration.
C7_NoTornConfig ==
  \A t \in Threads : ~torn[t]

\* A print_va call at a non-terminal level.
NonTerminalPrint(t) == call[t] = "print_va" /\ dl[t] < DL_Fatal

\* C8 as stated: an emission at a non-terminal level puts exactly one record on
\* each sink of the level's entry and none on any other, calls no cleanup
\* function and does not end the process.
C8_OneRecordPerRoutedSink ==
  \A t \in Threads :
    NonTerminalPrint(t) =>
      /\ pc[t] \in {"pr_write", "ret"} /\ ~hooked[t]
      /\ pc[t] = "ret" =>
           \A s \in Sinks : wrote[t][s] = IF routed[t][s] THEN 1 ELSE 0

\* C8 amended: an emission at a non-terminal level puts exactly one record on
\* each sink of the level's entry that is available and none on any other sink,
\* calls no cleanup function and does not end the process; an empty entry gives
\* no output.
C8_OneRecordPerAvailableRoutedSink ==
  \A t \in Threads :
    NonTerminalPrint(t) =>
      /\ pc[t] \in {"pr_write", "ret"} /\ ~hooked[t]
      /\ routed[t] = outputs[dl[t]]
      /\ pc[t] = "ret" => WritesDone(t) /\ ret[t] = "void"

\* C8 witness: Warning routed to stderr alone: one record on stderr, none elsewhere,
\* the call has returned and the process runs.
C8_Witness ==
  \E t \in Threads :
    /\ pc[t] = "ret" /\ call[t] = "print_va" /\ dl[t] = DL_Warning
    /\ routed[t] = MkOutput({"to_stderr"})
    /\ wrote[t] = [NoWrote EXCEPT !["to_stderr"] = 1]
    /\ ~terminated

\* A step of some thread inside print_va.
PrintVaStep ==
  \E t \in Threads :
    PrintVaWrite(t) \/ PrintVaWritten(t) \/ PrintVaCleanup(t) \/ PrintVaExit(t)

\* C9: with the diagnostics file routed but not open, an emission passes over
\* that sink only: every other routed sink has exactly one record when the writes
\* are over, a non-terminal emission returns normally, and no step of print_va
\* changes the enable flags, the matchers or the output table.
C9_UnavailableSinkSkipped ==
  /\ [](\A t \in Threads :
          (call[t] = "print_va" /\ routed[t].to_diagslog /\ diags_log_fp = "NULL"
           /\ pc[t] # "pr_write") =>
            /\ wrote[t]["to_diagslog"] = 0
            /\ \A s \in Sinks \ {"to_diagslog"} :
                 wrote[t][s] = IF routed[t][s] THEN 1 ELSE 0
            /\ pc[t] = "ret" => ret[t] = "void")
  /\ [][PrintVaStep => UNCHANGED <<enabled, outputs, activated_tags>>]_vars

\* C9 witness: an emission routed to all four sinks with the file not open has
\* returned with one record on each of the other three.
C9_Witness ==
  \E t \in Threads :
    /\ pc[t] = "ret" /\ call[t] = "print_va" /\ diags_log_fp = "NULL"
    /\ routed[t] = MkOutput(Sinks)
    /\ wrote[t] = [s \in Sinks |-> IF s = "to_diagslog" THEN 0 ELSE 1]

\* ------------------------------------------------ tag-filtered family claims
\* C11 as stated: while the Debug flag is false, a call of the Diag / Debug macros,
\* of log or of log_va, for any tag, puts no record on any sink, renders nothing
\* and has none of its message arguments evaluated.
C11_DisabledNoOutputNoEvaluation ==
  \A t \in Threads :
    (call[t] \in LogCalls /\ ~enabled[DiagsTagType_Debug]) =>
      /\ wrote[t] = NoWrote /\ ~formatted[t] /\ pc[t] \in {"idle", "ret"}
      /\ ~evaluated[t]

\* C11 amended: while the Debug flag is false, a call of the Diag / Debug macros,
\* of log or of log_va, for any tag (one the matcher holds included), puts no
\* record on any sink and renders nothing; through the macros the message
\* arguments are not evaluated either, while a direct call of log has had them
\* evaluated by its caller.
C11_DisabledNoOutputMacroNoEvaluation ==
  \A t \in Threads :
    (call[t] \in LogCalls /\ ~enabled[DiagsTagType_Debug]) =>
      /\ wrote[t] = NoWrote /\ ~formatted[t] /\ pc[t] \in {"idle", "ret"}
      /\ looked[t] = "none"
      /\ call[t] = "Debug" => ~evaluated[t]
      /\ call[t] = "log" => evaluated[t]

\* C11 witness: Debug("http", ...) has returned with the flag false while the
\* Debug matcher holds "http": nothing written, nothing rendered, nothing evaluated.
C11_Witness ==
  \E t \in Threads :
    /\ pc[t] = "ret" /\ call[t] = "Debug" /\ tag[t] = "http"
    /\ ~enabled[DiagsTagType_Debug]
    /\ activated_tags[DiagsTagType_Debug] = Ready(<<"http">>)
    /\ wrote[t] = NoWrote /\ ~formatted[t] /\ ~evaluated[t]

\* ---------------------------------------------- unconditional family claims
\* A call of error has got as far as print_va, which read the entry of its level.
ErrorReachedEmission(t) ==
  /\ pc[t] \in {"pr_write", "pr_cleanup", "pr_exit", "exited", "ret"}
  /\ formatted[t] /\ evaluated[t] /\ routed[t] = outputs[dl[t]]

\* C12 as stated: whatever the two flags and the two tag tables hold, a call of
\* Status .. Emergency reaches print_va, and what it writes is decided by the
\* output-table entry of its level alone: one record on each sink of the entry.
C12_ErrorOutputByRoutingOnly ==
  \A t \in Threads :
    call[t] = "error" =>
      /\ pc[t] # "error" => ErrorReachedEmission(t)
      /\ pc[t] \notin {"error", "pr_write"} =>
           \A s \in Sinks : wrote[t][s] = IF routed[t][s] THEN 1 ELSE 0

\* C12 amended: whatever the two flags and the two tag tables hold (both domains
\* off included), a call of Status .. Emergency reaches print_va, and what it
\* writes is decided by the output-table entry of its level and by which sinks
\* are available: one record on each available sink of the entry, none elsewhere;
\* it returns exactly when its level is not terminal.
C12_ErrorOutputByRoutingAndAvailability ==
  \A t \in Threads :
    call[t] = "error" =>
      /\ pc[t] # "error" => ErrorReachedEmission(t)
      /\ pc[t] \notin {"error", "pr_write"} => WritesDone(t)
      /\ pc[t] = "ret" => ~DiagsLevel_IsTerminal(dl[t])

\* C12 witness: with both flags false and both tag tables empty, Warning(...) has
\* put its one record on stderr, the sink of the Warning entry.
C12_Witness ==
  \E t \in Threads :
    /\ pc[t] = "ret" /\ call[t] = "error" /\ dl[t] = DL_Warning
    /\ \A m \in TagTypes : ~enabled[m] /\ activated_tags[m] = NULL
    /\ routed[t] = MkOutput({"to_stderr"})
    /\ wrote[t] = [NoWrote EXCEPT !["to_stderr"] = 1]

\* -------------------------------------------------------- severity claims
\* C13: the nine levels are ordered Diag < Debug < Status < Note < Warning < Error
\* < Fatal < Alert < Emergency, and DiagsLevel_IsTerminal is true of a level
\* exactly when the level is at or above Fatal, that is for Fatal, Alert and
\* Emergency and for none of the six below; every emission that applied it went
\* on to the cleanup and exit exactly for those three.
C13_TerminalIffAtLeastFatal ==
  /\ Levels = {DL_Diag, DL_Debug, DL_Status, DL_Note, DL_Warning, DL_Error,
               DL_Fatal, DL_Alert, DL_Emergency}
  /\ Cardinality(Levels) = 9
  /\ DL_Diag < DL_Debug /\ DL_Debug < DL_Status /\ DL_Status < DL_Note
  /\ DL_Note < DL_Warning /\ DL_Warning < DL_Error /\ DL_Error < DL_Fatal
  /\ DL_Fatal < DL_Alert /\ DL_Alert < DL_Emergency
  /\ \A l \in Levels : DiagsLevel_IsTerminal(l) <=> l >= DL_Fatal
  /\ \A l \in Levels :
       DiagsLevel_IsTerminal(l) <=> l \in {DL_Fatal, DL_Alert, DL_Emergency}
  /\ \A t \in Threads :
       /\ pc[t] \in {"pr_cleanup", "pr_exit", "exited"} => dl[t] >= DL_Fatal
       /\ (pc[t] = "ret" /\ call[t] = "print_va") => dl[t] < DL_Fatal

\* C13 witness: the two levels on either side of the boundary have been through
\* the test: an emission at Fatal is on its way to the exit while one at Error
\* has returned.
C13_Witness ==
  \E t \in Threads, u \in Threads :
    /\ pc[t] = "pr_cleanup" /\ dl[t] = DL_Fatal
    /\ pc[u] = "ret" /\ call[u] = "print_va" /\ dl[u] = DL_Error

\* ------------------------------------------------- reconfiguration claims
\* Domain m is off: its flag is false and it has no matcher.
DomainOff(m) == ~enabled[m] /\ activated_tags[m] = NULL

\* A step of thread t inside deactivate_all.
DeactivateStep(t) ==
  CallDeactivateAll(t) \/ DeactivateSwap(t) \/ DeactivateUnlock(t)

\* C14: deactivate_all(D) always ends with D off (flag false, no matcher), the
\* lock released and nothing to report, and no step of a deactivate_all(D) that
\* finds D off (as a first deactivate_all(D) leaves it) changes a flag, a matcher
\* or the output table: the second of two calls in succession leaves what the
\* first left, and finds the lock free.
C14_DeactivateTwiceSameAsOnce ==
  /\ [](\A w \in Threads :
          ReturnedAlone(w, "deactivate_all") =>
            /\ DomainOff(mode[w])
            /\ ret[w] = "void" /\ tag_table_lock # w)
  /\ [][\A t \in Threads :
          (DeactivateStep(t) /\ ~enabled[mode'[t]] /\ activated_tags[mode'[t]] = NULL)
            => UNCHANGED <<enabled, activated_tags, outputs>>]_vars

\* C14 witness: deactivate_all(D) by one thread found D enabled with a matcher and
\* returned; then deactivate_all(D) by another thread began, found D off, and
\* has returned with D off still.
C14_Witness ==
  \E w \in Threads, u \in Threads :
    /\ w # u /\ mode[w] = mode[u]
    /\ pc[w] = "ret" /\ call[w] = "deactivate_all"
    /\ pre[w].set /\ pre[w].en /\ pre[w].p # NULL
    /\ ReturnedAlone(u, "deactivate_all")
    /\ pre[u].set /\ ~pre[u].en /\ pre[u].p = NULL
    /\ DomainOff(mode[u]) /\ tag_table_lock = NoThread

\* The positions at which a thread holds tag_table_lock: between the load of the
\* matcher pointer and the end of the match, and just after a swap.
LockedPositions == {"ta_match", "ta_unlock", "act_unlock", "deact_unlock"}

\* C15: tag_table_lock is held only for the lookup in tag_activated and for the
\* pointer swap of activate_taglist / deactivate_all: no thread holds it while it
\* compiles a tag list or while print_va writes a record.
C15_LockOnlyForLookupAndSwap ==
  \A t \in Threads :
    /\ tag_table_lock = t => pc[t] \in LockedPositions
    /\ pc[t] \in {"act_compile", "act_lock", "pr_write", "log_gate"} =>
         tag_table_lock # t

\* C15 witness: one thread, past the lookup of its log_va, is writing its records
\* while another holds the lock for the swap of activate_taglist; and the writer
\* does not hold it.
C15_Witness ==
  \E t \in Threads, u \in Threads :
    /\ pc[t] = "pr_write" /\ call[t] = "log_va" /\ wrote[t] # NoWrote
    /\ pc[u] = "act_unlock" /\ tag_table_lock = u
    /\ Len(taglist[u]) > 0

\* ----------------------------------------------------- log / print claims
\* Thread t's call is past the gate of log_va, or has no gate.
PastGate(t) == pc[t] \in {"pr_write", "pr_cleanup", "pr_exit", "exited", "ret"}

\* C16: log(tag, level, ...) does what "if on(tag, DiagsTagType_Debug) then
\* print_va(tag, level, ...)" does, at every level: with no reconfiguration during
\* the call it has entered print_va exactly when the gate is true for its tag, and
\* otherwise it returns having written nothing; print called directly enters
\* print_va whatever the gate says, the domain off and the tag not activated
\* included.
C16_LogIsGatedPrint ==
  \A t \in Threads :
    /\ (call[t] = "log" /\ PastGate(t)) =>
         /\ formatted[t] <=> OnTagNow(tag[t], DiagsTagType_Debug)
         /\ formatted[t] <=> (looked[t] = "ready" /\ Match(ptr[t].pats, tag[t]))
         /\ formatted[t] => routed[t] = outputs[dl[t]]
         /\ ~formatted[t] =>
              /\ pc[t] = "ret" /\ ret[t] = "void" /\ ~hooked[t]
              /\ wrote[t] = NoWrote /\ routed[t] = NoOutput
         /\ pc[t] # "pr_write" /\ formatted[t] => WritesDone(t)
    /\ call[t] = "print_va" =>
         /\ PastGate(t) /\ formatted[t] /\ routed[t] = outputs[dl[t]]
         /\ looked[t] = "none"
         /\ pc[t] # "pr_write" => WritesDone(t)

\* C16 witness: with Debug enabled for "http", log("http", ...) has written its
\* records and returned while log("dns", ...) has returned having written nothing.
C16_Witness ==
  \E t \in Threads, u \in Threads :
    /\ enabled[DiagsTagType_Debug]
    /\ activated_tags[DiagsTagType_Debug] = Ready(<<"http">>)
    /\ pc[t] = "ret" /\ call[t] = "log" /\ tag[t] = "http"
    /\ formatted[t] /\ wrote[t] = [s \in Sinks |-> 1]
    /\ pc[u] = "ret" /\ call[u] = "log" /\ tag[u] = "dns"
    /\ ~formatted[u] /\ wrote[u] = NoWrote

\* A second state of the same claim: with Debug off and no matcher, print called
\* directly has written its records.
C16_PrintIgnoresGate ==
  \E t \in Threads :
    /\ DomainOff(DiagsTagType_Debug)
    /\ pc[t] = "ret" /\ call[t] = "print_va" /\ wrote[t] = [s \in Sinks |-> 1]

\* ------------------------------------------------------- two controllers
\* A step of thread t inside activate_taglist or deactivate_all of the first object.
ReconfStep(t) ==
  \/ CallActivateTaglist(t) \/ ActivateCompile(t) \/ ActivateSwap(t)
  \/ ActivateUnlock(t) \/ ActivateEnable(t)
  \/ CallDeactivateAll(t) \/ DeactivateSwap(t) \/ DeactivateUnlock(t)

\* C17: once a second Diags object exists, no step of an activate_taglist or a
\* deactivate_all on the first object changes what the second object's on(D) or
\* on(t, D) answers, for any domain D and tag t.
C17_SecondObjectUnaffected ==
  [][(b_activated_tags[DiagsTagType_Debug] # Absent /\ \E t \in Threads : ReconfStep(t))
       => \A m \in TagTypes :
            /\ b_on(m)' = b_on(m)
            /\ \A tg \in Tags : b_on_tag(tg, m)' = b_on_tag(tg, m)]_vars

\* What a lookup in table p answers for tag tg.
MatchOf(p, tg) == p # NULL /\ Match(p.pats, tg)

\* C18: no step of activate_taglist(L, D) or deactivate_all(D) changes the other
\* domain's flag, the other domain's matcher (what it answers for any tag), or any
\* entry of the output table.
C18_OtherDomainAndTableUntouched ==
  [][\A t \in Threads :
       ReconfStep(t) =>
         /\ outputs' = outputs
         /\ \A m \in TagTypes \ {mode'[t]} :
              /\ enabled'[m] = enabled[m]
              /\ activated_tags'[m] = activated_tags[m]
              /\ \A tg \in Tags :
                   MatchOf(activated_tags'[m], tg) = MatchOf(activated_tags[m], tg)]_vars

\* C18 witness: activate_taglist("http|dns", Debug) has set the Debug flag and
\* returned, and the Action domain is enabled with its matcher for "http", the
\* output table being the one the controller started with.
C18_Witness ==
  \E w \in Threads :
    /\ ReturnedAlone(w, "activate_taglist") /\ mode[w] = DiagsTagType_Debug
    /\ taglist[w] = <<"http", "dns">> /\ flag_owner[DiagsTagType_Debug] = w
    /\ activated_tags[DiagsTagType_Debug] = Ready(<<"http", "dns">>)
    /\ enabled[DiagsTagType_Action]
    /\ activated_tags[DiagsTagType_Action] = Ready(<<"http">>)
    /\ outputs = ScenarioOutputs

\* ------------------------------------------------------------- liveness
\* C19: tag_activated, activate_taglist and deactivate_all release
\* tag_table_lock before they return, on every path, and under fair scheduling
\* every call of on(tag, mode), activate_taglist and deactivate_all returns: a
\* thread that waits for the lock gets it, and none is left inside the controller.
C19_LockReleasedAndCallsReturn ==
  /\ [](\A t \in Threads : pc[t] \in {"idle", "ret"} => tag_table_lock # t)
  /\ \A t \in Threads : (pc[t] # "idle") ~> (pc[t] = "ret")
  /\ \A t \in Threads :
       (pc[t] \in {"ta_lock", "act_lock", "deact_lock"}) ~> (tag_table_lock = t)

\* C19 witness: a thread waits for the lock in tag_activated while the other
\* holds it for the swap of activate_taglist.
C19_Witness ==
  \E t \in Threads, u \in Threads :
    /\ pc[t] = "ta_lock" /\ call[t] = "on_tag"
    /\ pc[u] = "act_unlock" /\ tag_table_lock = u /\ mode[u] = mode[t]

\* ------------------------------------------- the build without TS_USE_DIAGS
\* C20: without TS_USE_DIAGS, on(mode) and on(tag, mode) answer false for every
\* input, Diag and Debug write nothing and evaluate nothing, and a severity macro
\* ends the process exactly when its level is terminal: Fatal, Alert and
\* Emergency do, Status, Note, Warning and Error return.
C20_NoDiagsKeepsSeverity ==
  \A t \in Threads :
    /\ (call[t] \in {"on", "on_tag"} /\ pc[t] = "ret") => ret[t] = "false"
    /\ call[t] = "Debug" =>
         wrote[t] = NoWrote /\ ~formatted[t] /\ ~evaluated[t] /\ pc[t] = "ret"
    /\ (call[t] \in InkFuncs /\ pc[t] \in {"ret", "exited"}) =>
         (pc[t] = "exited" <=> DiagsLevel_IsTerminal(dl[t]))

====
